---- MODULE Spec2Model ----
(***************************************************************************)
(* A model of the gating recorder/looper of src/src/condenser.rs.          *)
(*                                                                         *)
(* Numbers.  Sample amplitudes are integers in units of 1/One, so that     *)
(* One is the amplitude 1.0.  Fade multipliers are integers in quarters    *)
(* (FadeOne = 4 is the multiplier 1.0); every input level is a multiple    *)
(* of 4, so a sample times a multiplier is exact.  The f32 value NaN is    *)
(* the distinguished value NaN, which every arithmetic operation           *)
(* propagates.  The release coefficient is 1/RelDen per sample; the        *)
(* envelope is rounded down to a whole unit, which changes none of its     *)
(* comparisons (the threshold and every peak are whole units).             *)
(*                                                                         *)
(* A panic (slice range out of bounds, remainder by zero) ends the call    *)
(* where it happens: the fields keep what was assigned before it and the   *)
(* variable panicked records it.  The subtractions on usize never go below *)
(* zero: write_ptr <= max_frames, read_ptr < recorded_frames and           *)
(* fade_pos <= fade_len in every state the model reaches.                  *)
(*                                                                         *)
(* Specifications.  Spec takes process_inplace a call at a time, between   *)
(* changes of the loop-mode switch; SpecStore drives ring_write and        *)
(* ring_read directly, as the unit tests do; SpecLoop takes the while loop *)
(* of process_inplace an iteration at a time.  The variables ops, segs and *)
(* fades hold what a call did, for the properties to read; the code has no *)
(* such fields.                                                            *)
(***************************************************************************)
EXTENDS Integers, Sequences, FiniteSets, TLC

VARIABLES
  fx,         \* the Condenser struct
  call,       \* the operation that produced this state
  inp,        \* the block (or the data) handed to that operation
  mixed,      \* the caller's block after process_inplace
  wet,        \* what the operation's ring_read returned
  ops,        \* the store operations of that operation, in order
  segs,       \* the iterations of process_inplace's loop, in order
  fades,      \* the fade phases the last process_inplace call ran or resumed
  panicked,   \* the operation ended in a panic
  round       \* the direct store rounds made so far (SpecStore)

vars == <<fx, call, inp, mixed, wet, ops, segs, fades, panicked, round>>

\* ---------------------------------------------------------------- bounds
MaxBlock == 4          \* longest block handed to process_inplace
MaxProcessed == 5      \* cap on the processed_frames counter
MaxStoreCalls == 2     \* direct ring_write/ring_read rounds in SpecStore

\* ------------------------------------------------------- number encoding
One == 16              \* amplitude 1.0
FadeOne == 4           \* fade multiplier 1.0
NaN == 9999            \* f32 NaN
RelDen == 2            \* 1 / rel_coef
ThLin == 4             \* th_lin, the linear threshold (0.25, about -12 dB)
DryWetOne == 2         \* dry_wet 1.0 (dry_wet is kept in halves)

\* the sample values of the input blocks: silence and -1.0
Levels == {0, 0 - One}

\* the arguments Condenser::new is called with
SampleRates == {1}
DryWets == {1, 3}
FadeMs == {500, 2000, 3000}
MaxSeconds == {0, 1, 3}
WarmupMs == {0, 2000}
StoreSeconds == {0, 1, 3, 4}

Min(a, b) == IF a < b THEN a ELSE b
Max(a, b) == IF a > b THEN a ELSE b
Abs(x) == IF x < 0 THEN 0 - x ELSE x

\* the sequences over S of length 0..n
SeqsUpTo(S, n) == UNION {[1..k -> S] : k \in 0..n}

\* s[a..b) of a Rust slice, 0-based and half open
Slice(s, a, b) == [i \in 1..(b - a) |-> s[a + i]]

Zeros(n) == [i \in 1..n |-> 0]

\* ------------------------------------------------------------ fade table
\* 2*cos of k twelfths of a turn, at the angles where it is rational
TwiceCos(k) ==
  CASE k = 0 -> 2
    [] k = 2 -> 1
    [] k = 3 -> 0
    [] k = 4 -> 0 - 1
    [] k = 6 -> 0 - 2
    [] k = 8 -> 0 - 1
    [] k = 9 -> 0
    [] k = 10 -> 1

\* 0.5 - 0.5*cos(2*PI*t / (fade_len - 1)) in quarters; at fade_len = 1 the
\* quotient is 0/0, which is NaN in f32, and so are its cosine and the entry
Hann(t, fade_len) ==
  IF fade_len - 1 = 0 THEN NaN
  ELSE 2 - TwiceCos(((12 * t) \div (fade_len - 1)) % 12)

\* f32 product of a sample and a fade multiplier
Mul(s, f) == IF s = NaN \/ f = NaN THEN NaN ELSE (s * f) \div FadeOne

\* --------------------------------------------------------- construction
\* (x as usize) of a non-negative quotient: truncation
Trunc(num, den) == num \div den

\* Condenser::new; fade_ms and warmup_ms are in milliseconds, dry_wet in halves
New(fs, dry_wet, fade_ms, max_seconds, warmup_ms, loop_mode) ==
  LET max_frames == fs * max_seconds
      fade_len == Max(Trunc(fade_ms * fs, 1000), 1)
  IN [ fs |-> fs,
       th_lin |-> ThLin,
       dry_wet |-> Max(0, Min(dry_wet, DryWetOne)),
       loop_mode |-> loop_mode,
       warmup_frames |-> Trunc(warmup_ms * fs, 1000),
       processed_frames |-> 0,
       max_frames |-> max_frames,
       buf |-> Zeros(max_frames),
       write_ptr |-> 0,
       read_ptr |-> 0,
       recorded_frames |-> 0,
       state |-> "Idle",
       fade_len |-> fade_len,
       fade_curve |-> [t \in 1..fade_len |-> Hann(t - 1, fade_len)],
       fade_pos |-> 0,
       env |-> 0 ]

\* ----------------------------------------------------------- ring buffer
\* dst with src copied over dst[at .. at + Len(src))
CopyInto(dst, at, src) ==
  [i \in 1..Len(dst) |->
     IF i > at /\ i <= at + Len(src) THEN src[i - at] ELSE dst[i]]

\* ring_write growing recorded_frames to the old write pointer, not to end
RingWriteStaleLen(c, data) ==
  IF c.loop_mode \/ c.max_frames = 0 \/ c.write_ptr + Len(data) > c.max_frames
  THEN [c |-> c, ok |-> TRUE]
  ELSE [c |-> [c EXCEPT !.buf = CopyInto(c.buf, c.write_ptr, data),
                         !.write_ptr = (c.write_ptr + Len(data)) % c.max_frames,
                         !.recorded_frames = Max(c.recorded_frames, c.write_ptr)],
        ok |-> TRUE]

\* ring_write advancing write_ptr without the wrap to 0 at the end
RingWriteNoWrapPtr(c, data) ==
  IF c.loop_mode \/ c.max_frames = 0 \/ c.write_ptr + Len(data) > c.max_frames
  THEN [c |-> c, ok |-> TRUE]
  ELSE [c |-> [c EXCEPT !.buf = CopyInto(c.buf, c.write_ptr, data),
                         !.write_ptr = c.write_ptr + Len(data),
                         !.recorded_frames =
                            Min(Max(c.recorded_frames, c.write_ptr + Len(data)),
                                c.max_frames)],
        ok |-> TRUE]

\* ring_write growing recorded_frames to the length of the write, not to end
RingWriteCountsLast(c, data) ==
  IF c.loop_mode \/ c.max_frames = 0 \/ c.write_ptr + Len(data) > c.max_frames
  THEN [c |-> c, ok |-> TRUE]
  ELSE [c |-> [c EXCEPT !.buf = CopyInto(c.buf, c.write_ptr, data),
                         !.write_ptr = (c.write_ptr + Len(data)) % c.max_frames,
                         !.recorded_frames =
                            Min(Max(c.recorded_frames, Len(data)), c.max_frames)],
        ok |-> TRUE]

\* Condenser::ring_write: [c |-> the struct afterwards, ok |-> no panic]
RingWrite(c, data) ==
  IF c.loop_mode THEN [c |-> c, ok |-> TRUE]
  ELSE
    LET n == Len(data)
        end == c.write_ptr + n
    IN IF end <= c.max_frames
       THEN LET b1 == CopyInto(c.buf, c.write_ptr, data)
            IN IF c.max_frames = 0
               THEN [c |-> [c EXCEPT !.buf = b1], ok |-> FALSE]
               ELSE [c |-> [c EXCEPT !.buf = b1,
                                     !.write_ptr = end % c.max_frames,
                                     !.recorded_frames =
                                        Min(Max(c.recorded_frames, end), c.max_frames)],
                     ok |-> TRUE]
       ELSE LET first == c.max_frames - c.write_ptr
                b1 == CopyInto(c.buf, c.write_ptr, Slice(data, 0, first))
            IN IF n - first > c.max_frames
               THEN [c |-> [c EXCEPT !.buf = b1], ok |-> FALSE]
               ELSE [c |-> [c EXCEPT !.buf = CopyInto(b1, 0, Slice(data, first, n)),
                                     !.write_ptr = end % c.max_frames,
                                     !.recorded_frames =
                                        Min(Max(c.recorded_frames, end), c.max_frames)],
                     ok |-> TRUE]

\* the positions a..b-1 of a slice [a..b)
Range(a, b) == [i \in 1..(b - a) |-> a + i - 1]

\* Condenser::ring_read: [c, out |-> the samples returned, pos |-> the buffer
\* positions they were copied from, ok |-> no panic]
RingRead(c, n) ==
  IF c.recorded_frames = 0
  THEN [c |-> c, out |-> Zeros(n), pos |-> <<>>, ok |-> TRUE]
  ELSE
    LET loop_len == c.recorded_frames
        end == c.read_ptr + n
    IN IF end <= loop_len
       THEN [c |-> [c EXCEPT !.read_ptr = (c.read_ptr + n) % loop_len],
             out |-> Slice(c.buf, c.read_ptr, end),
             pos |-> Range(c.read_ptr, end), ok |-> TRUE]
       ELSE LET first == loop_len - c.read_ptr
            IN IF n - first > c.max_frames
               THEN [c |-> c, out |-> <<>>, pos |-> <<>>, ok |-> FALSE]
               ELSE [c |-> [c EXCEPT !.read_ptr = (c.read_ptr + n) % loop_len],
                     out |-> Slice(c.buf, c.read_ptr, loop_len)
                               \o Slice(c.buf, 0, n - first),
                     pos |-> Range(c.read_ptr, loop_len) \o Range(0, n - first),
                     ok |-> TRUE]

\* ------------------------------------------------------- process_inplace
RECURSIVE Pow(_, _)
Pow(b, e) == IF e = 0 THEN 1 ELSE b * Pow(b, e - 1)

RECURSIVE PeakFrom(_, _)
\* seg.iter().fold(0.0, |a, &b| a.max(b.abs())) over block[idx..]
PeakFrom(block, idx) ==
  IF idx >= Len(block) THEN 0
  ELSE Max(Abs(block[idx + 1]), PeakFrom(block, idx + 1))

\* the envelope after a segment of `remain` samples with peak `peak`
EnvUpdate(env, peak, remain) ==
  IF peak > env THEN peak ELSE env \div Pow(RelDen, remain)

\* block[i] = (1 - dry_wet) * block[i] + dry_wet * wet[i] over the zipped
\* pairs; dry_wet is in halves and a NaN operand makes the sum NaN
Mix(c, block, w) ==
  [i \in 1..Len(block) |->
     IF i > Len(w) THEN block[i]
     ELSE IF w[i] = NaN THEN NaN
     ELSE ((DryWetOne - c.dry_wet) * block[i] + c.dry_wet * w[i]) \div DryWetOne]

\* One store operation of a call, as the trace ops records it: the struct c
\* it was applied to, its argument and its result.  idx is the index in the
\* block of the first sample written.
WriteOp(c, data, idx, w) ==
  [op |-> "write", n |-> Len(data), data |-> data, pos |-> <<>>, idx |-> idx,
   state |-> c.state, from |-> c.write_ptr, len |-> c.recorded_frames, ok |-> w.ok]
ReadOp(c, n, r) ==
  [op |-> "read", n |-> n, data |-> r.out, pos |-> r.pos, idx |-> 0,
   state |-> c.state, from |-> c.read_ptr, len |-> c.recorded_frames, ok |-> r.ok]

\* the mix of the block with what ring_read returned, r
Mixed(c, block, tr, sg, r) ==
  [c |-> r.c,
   block |-> IF r.ok THEN Mix(c, block, r.out) ELSE block,
   wet |-> r.out,
   ok |-> r.ok,
   ops |-> Append(tr, ReadOp(c, Len(block), r)),
   segs |-> sg]

\* the trailing ring_read and mix shared by the three exits of process_inplace
ReadAndMix(c, block, tr, sg) == Mixed(c, block, tr, sg, RingRead(c, Len(block)))

\* a FadeIn span shaped from the start of the fade table, whatever fade_pos
FadeInDataFromStart(c, block, idx, span) ==
  [i \in 1..span |-> Mul(block[idx + i], c.fade_curve[i])]

\* the samples a FadeIn span writes: seg[..span] times fade_curve[fade_pos..]
FadeInData(c, block, idx, span) ==
  [i \in 1..span |-> Mul(block[idx + i], c.fade_curve[c.fade_pos + i])]

\* a FadeOut span shaped from the end of the fade table, whatever fade_pos
FadeOutDataFromEnd(c, block, idx, span) ==
  [i \in 1..span |-> Mul(block[idx + i], c.fade_curve[c.fade_len - i + 1])]

\* the samples a FadeOut span writes: seg[..span] times the reverse of
\* fade_curve[fade_len - span - fade_pos .. fade_len - fade_pos]
FadeOutData(c, block, idx, span) ==
  [i \in 1..span |->
     Mul(block[idx + i], c.fade_curve[c.fade_len - c.fade_pos - i + 1])]

\* the Idle arm of the first match: the gate opens or the loop breaks
GateCheck(c) ==
  IF c.state = "Idle" /\ c.env > c.th_lin
  THEN [c EXCEPT !.state = "FadeIn", !.fade_pos = 0]
  ELSE c

\* whether the second match hands the segment to ring_write
SegWrites(c) ==
  c.state \in {"FadeIn", "FadeOut"} \/ (c.state = "Record" /\ c.env > c.th_lin)

\* span = remain.min(self.fade_len - self.fade_pos)
Span(c, block, idx) == Min(Len(block) - idx, c.fade_len - c.fade_pos)

\* what the second match hands to ring_write
SegData(c, block, idx) ==
  CASE c.state = "FadeIn" -> FadeInData(c, block, idx, Span(c, block, idx))
    [] c.state = "FadeOut" -> FadeOutData(c, block, idx, Span(c, block, idx))
    [] c.state = "Record" /\ c.env > c.th_lin -> Slice(block, idx, Len(block))
    [] OTHER -> <<>>

\* the ring_write of the second match, if it makes one
SegRingWrite(c, data) ==
  IF SegWrites(c) THEN RingWrite(c, data) ELSE [c |-> c, ok |-> TRUE]

\* fade_pos set to the length of the last span, not advanced by it
SegAdvanceLastSpan(c, wc, used) ==
  CASE c.state = "FadeIn" ->
         [wc EXCEPT !.fade_pos = used,
                    !.state = IF used >= c.fade_len THEN "Record" ELSE "FadeIn"]
    [] c.state = "FadeOut" ->
         [wc EXCEPT !.fade_pos = used,
                    !.state = IF used >= c.fade_len THEN "Idle" ELSE "FadeOut"]
    [] c.state = "Record" ->
         IF SegWrites(c) THEN wc ELSE [c EXCEPT !.state = "FadeOut", !.fade_pos = 0]
    [] OTHER -> c

\* a fade-out that goes back to Record when the envelope is above threshold
SegAdvanceRetrigger(c, wc, used) ==
  CASE c.state = "FadeIn" ->
         [wc EXCEPT !.fade_pos = c.fade_pos + used,
                    !.state = IF c.fade_pos + used >= c.fade_len
                              THEN "Record" ELSE "FadeIn"]
    [] c.state = "FadeOut" ->
         [wc EXCEPT !.fade_pos = c.fade_pos + used,
                    !.state = IF c.env > c.th_lin THEN "Record"
                              ELSE IF c.fade_pos + used >= c.fade_len
                              THEN "Idle" ELSE "FadeOut"]
    [] c.state = "Record" ->
         IF SegWrites(c) THEN wc ELSE [c EXCEPT !.state = "FadeOut", !.fade_pos = 0]
    [] OTHER -> c

\* Record left for a fade-out that starts at fade_len, not at 0
SegAdvanceFadeAtEnd(c, wc, used) ==
  CASE c.state = "FadeIn" ->
         [wc EXCEPT !.fade_pos = c.fade_pos + used,
                    !.state = IF c.fade_pos + used >= c.fade_len
                              THEN "Record" ELSE "FadeIn"]
    [] c.state = "FadeOut" ->
         [wc EXCEPT !.fade_pos = c.fade_pos + used,
                    !.state = IF c.fade_pos + used >= c.fade_len
                              THEN "Idle" ELSE "FadeOut"]
    [] c.state = "Record" ->
         IF SegWrites(c) THEN wc
         ELSE [c EXCEPT !.state = "FadeOut", !.fade_pos = c.fade_len]
    [] OTHER -> c

\* fade_pos and state after the ring_write; c is the struct the match saw,
\* wc the struct ring_write left, used the number of samples written
SegAdvance(c, wc, used) ==
  CASE c.state = "FadeIn" ->
         [wc EXCEPT !.fade_pos = c.fade_pos + used,
                    !.state = IF c.fade_pos + used >= c.fade_len
                              THEN "Record" ELSE "FadeIn"]
    [] c.state = "FadeOut" ->
         [wc EXCEPT !.fade_pos = c.fade_pos + used,
                    !.state = IF c.fade_pos + used >= c.fade_len
                              THEN "Idle" ELSE "FadeOut"]
    [] c.state = "Record" ->
         IF SegWrites(c) THEN wc ELSE [c EXCEPT !.state = "FadeOut", !.fade_pos = 0]
    [] OTHER -> c

\* One iteration of the while loop of process_inplace at index idx, given
\* c0 the struct it started from, c the struct after the envelope update and
\* the Idle check, data the samples for ring_write and w its result:
\*   c     the struct afterwards        idx   the index afterwards
\*   ok    no panic                     brk   the loop was left by break
\*   wrote the ring_write made, if any
\*   seg   the iteration as the trace segs records it: the phase and the
\*         envelope it started from, the peak of block[idx..], the envelope
\*         after the update, the phase that handled the segment and the
\*         fade_pos it saw, what was written, how many samples were consumed
\*         and the phase the iteration left
SegResult(c0, c, block, idx, data, w) ==
  [c |-> IF w.ok THEN SegAdvance(c, w.c, Len(data)) ELSE w.c,
   ok |-> w.ok,
   brk |-> c.state = "Idle",
   idx |-> IF w.ok THEN idx + Len(data) ELSE idx,
   wrote |-> IF SegWrites(c) THEN <<WriteOp(c, data, idx, w)>> ELSE <<>>,
   seg |-> [idx |-> idx, remain |-> Len(block) - idx, peak |-> PeakFrom(block, idx),
            state |-> c0.state, env0 |-> c0.env, env |-> c.env,
            phase |-> c.state, pos |-> c.fade_pos, data |-> data,
            used |-> Len(data), ok |-> w.ok,
            next |-> IF w.ok THEN SegAdvance(c, w.c, Len(data)).state
                     ELSE w.c.state]]

SegHandle(c0, c, block, idx, data) ==
  SegResult(c0, c, block, idx, data, SegRingWrite(c, data))

SegGate(c0, c, block, idx) == SegHandle(c0, c, block, idx, SegData(c, block, idx))

SegStep(c, block, idx) ==
  SegGate(c,
          GateCheck([c EXCEPT !.env = EnvUpdate(c.env, PeakFrom(block, idx),
                                                Len(block) - idx)]),
          block, idx)

RECURSIVE SegLoop(_, _, _, _, _)
RECURSIVE SegNext(_, _, _, _)
\* the while loop of process_inplace from index idx on: [c, ok |-> no panic,
\* ops |-> the store operations so far, segs |-> the iterations so far]
SegLoop(c, block, idx, tr, sg) ==
  IF idx >= Len(block) THEN [c |-> c, ok |-> TRUE, ops |-> tr, segs |-> sg]
  ELSE SegNext(SegStep(c, block, idx), block, tr, sg)

\* after the iteration st: leave the loop (break, panic) or go round again
SegNext(st, block, tr, sg) ==
  IF st.brk \/ ~st.ok
  THEN [c |-> st.c, ok |-> st.ok, ops |-> tr \o st.wrote, segs |-> Append(sg, st.seg)]
  ELSE SegLoop(st.c, block, st.idx, tr \o st.wrote, Append(sg, st.seg))

\* what follows the while loop: the counter, the ring_read and the mix,
\* unless the loop ended in a panic
AfterLoop(l, block) ==
  IF ~l.ok
  THEN [c |-> l.c, block |-> block, wet |-> <<>>, ok |-> FALSE,
        ops |-> l.ops, segs |-> l.segs]
  ELSE ReadAndMix([l.c EXCEPT !.processed_frames = @ + Len(block)],
                  block, l.ops, l.segs)

\* process_inplace without the loop-mode return: loop mode runs the gate too
ProcessInplaceGatedLoop(c, block) ==
  AfterLoop(SegLoop(c, block, 0, <<>>, <<>>), block)

\* Condenser::process_inplace:
\* [c, block |-> the block afterwards, wet, ok |-> no panic, ops, segs]
ProcessInplace(c, block) ==
  IF c.loop_mode THEN ReadAndMix(c, block, <<>>, <<>>)
  ELSE IF c.processed_frames < c.warmup_frames
  THEN ReadAndMix([c EXCEPT !.processed_frames = @ + Len(block)], block, <<>>, <<>>)
  ELSE AfterLoop(SegLoop(c, block, 0, <<>>, <<>>), block)

\* Condenser::get_recorded
GetRecorded(c) == Slice(c.buf, 0, c.recorded_frames)

\* ------------------------------------------------------------- fade log
\* The fade phases as a listener at ring_write sees them, kept apart from
\* fade_pos: per phase the input samples consumed (src), the samples
\* handed to ring_write (out), per span the fade_pos the code resumed from
\* and the span's length (at), and the phase the fade was left for (left,
\* "" while the fade is not over).
NewFade(g) == [phase |-> g.phase, src |-> <<>>, out |-> <<>>, at |-> <<>>, left |-> ""]

\* the fade e after the span of iteration g over block; a span whose
\* ring_write panicked consumed nothing
FadeSpan(e, g, block) ==
  IF ~g.ok THEN e
  ELSE
  [e EXCEPT !.src = @ \o Slice(block, g.idx, g.idx + g.used),
            !.out = @ \o g.data,
            !.at = Append(@, [pos |-> g.pos, n |-> g.used]),
            !.left = IF g.next # g.phase THEN g.next ELSE ""]

\* the fade a call starts in the middle of, if any
OpenFade(log) ==
  IF log # <<>> /\ log[Len(log)].left = "" THEN <<log[Len(log)]>> ELSE <<>>

\* iteration g continues the last fade of log (it did not just enter it)
Resumes(log, g) ==
  /\ log # <<>>
  /\ log[Len(log)].left = ""
  /\ log[Len(log)].phase = g.phase
  /\ g.state = g.phase

\* the log after iteration g: a FadeIn or FadeOut span extends the fade it
\* resumes, or starts a new one
FadeLogStep(log, g, block) ==
  IF g.phase \notin {"FadeIn", "FadeOut"} THEN log
  ELSE IF Resumes(log, g)
  THEN [log EXCEPT ![Len(log)] = FadeSpan(@, g, block)]
  ELSE Append(log, FadeSpan(NewFade(g), g, block))

RECURSIVE FadeLog(_, _, _, _)
\* the log after the iterations sg[j..] of a call on block
FadeLog(log, sg, block, j) ==
  IF j > Len(sg) THEN log
  ELSE FadeLog(FadeLogStep(log, sg[j], block), sg, block, j + 1)

\* ---------------------------------------------------------------- actions
\* the block of tests::record_and_fade: three samples of 1.0
AllOnes == [i \in 1..3 |-> One]

Blocks == SeqsUpTo(Levels, MaxBlock) \cup {AllOnes}

Init ==
  /\ fx \in {New(fs, dw, fm, ms, wm, lm) :
              fs \in SampleRates, dw \in DryWets, fm \in FadeMs,
              ms \in MaxSeconds, wm \in WarmupMs, lm \in BOOLEAN}
  /\ call = "new"
  /\ inp = <<>>
  /\ mixed = <<>>
  /\ wet = <<>>
  /\ ops = <<>>
  /\ segs = <<>>
  /\ fades = <<>>
  /\ panicked = FALSE
  /\ round = 0

\* the state after a process_inplace call that returned or panicked with r
Processed(blk, r) ==
  /\ fx' = r.c
  /\ mixed' = r.block
  /\ wet' = r.wet
  /\ ops' = r.ops
  /\ segs' = r.segs
  /\ fades' = FadeLog(OpenFade(fades), r.segs, blk, 1)
  /\ panicked' = ~r.ok
  /\ call' = "process_inplace"
  /\ inp' = blk
  /\ UNCHANGED round

\* one audio block through process_inplace
Process(blk) ==
  /\ ~panicked
  /\ fx.processed_frames + Len(blk) <= MaxProcessed
  /\ Processed(blk, ProcessInplace(fx, blk))

\* the loop-mode setter the plugin calls between blocks
SetLoopMode(b) ==
  /\ ~panicked
  /\ b # fx.loop_mode
  /\ fx' = [fx EXCEPT !.loop_mode = b]
  /\ call' = "set_loop_mode"
  /\ inp' = <<>>
  /\ mixed' = <<>>
  /\ wet' = <<>>
  /\ ops' = <<>>
  /\ segs' = <<>>
  /\ UNCHANGED <<fades, panicked, round>>

Next ==
  \/ \E blk \in Blocks : Process(blk)
  \/ \E b \in BOOLEAN : SetLoopMode(b)

Spec == Init /\ [][Next]_vars

\* the store driven directly, as the unit tests ring_write_read and
\* ring_wraparound drive it: a ring_write of k samples, numbered on from
\* the samples written before, followed by a ring_read of n samples
InitStore ==
  /\ fx \in {New(fs, DryWetOne, 500, ms, 0, lm) :
               fs \in SampleRates, ms \in StoreSeconds, lm \in BOOLEAN}
  /\ call = "new"
  /\ inp = <<>>
  /\ mixed = <<>>
  /\ wet = <<>>
  /\ ops = <<>>
  /\ segs = <<>>
  /\ fades = <<>>
  /\ panicked = FALSE
  /\ round = 0

RingWriteRead(k, n) ==
  /\ ~panicked
  /\ round < MaxStoreCalls
  /\ LET data == [i \in 1..k |-> round * (MaxBlock + 1) + i]
         w == RingWrite(fx, data)
         r == RingRead(w.c, n)
     IN /\ inp' = data
        /\ IF ~w.ok
           THEN /\ fx' = w.c
                /\ wet' = <<>>
                /\ ops' = <<WriteOp(fx, data, 0, w)>>
                /\ panicked' = TRUE
           ELSE /\ fx' = r.c
                /\ wet' = r.out
                /\ ops' = <<WriteOp(fx, data, 0, w), ReadOp(w.c, n, r)>>
                /\ panicked' = ~r.ok
  /\ call' = "ring_write_read"
  /\ mixed' = <<>>
  /\ segs' = <<>>
  /\ fades' = <<>>
  /\ round' = round + 1

NextStore == \E k \in 0..MaxBlock : \E n \in 0..MaxBlock : RingWriteRead(k, n)

SpecStore == InitStore /\ [][NextStore]_vars

\* process_inplace past warmup with its while loop taken one iteration at
\* a time: call = "loop" while the loop runs, inp is the block, segs the
\* iterations made and ops the store operations made so far
InitLoop ==
  /\ fx \in {New(fs, DryWetOne, fm, ms, 0, FALSE) :
               fs \in SampleRates, fm \in FadeMs, ms \in MaxSeconds}
  /\ call = "new"
  /\ inp = <<>>
  /\ mixed = <<>>
  /\ wet = <<>>
  /\ ops = <<>>
  /\ segs = <<>>
  /\ fades = <<>>
  /\ panicked = FALSE
  /\ round = 0

\* idx, the index of the first sample not yet consumed
LoopIdx ==
  IF segs = <<>> THEN 0 ELSE segs[Len(segs)].idx + segs[Len(segs)].used

\* the last iteration left the loop by break or by a panic
LoopBroken ==
  segs # <<>> /\ (segs[Len(segs)].phase = "Idle" \/ ~segs[Len(segs)].ok)

\* the loop is over: idx >= n_total, break or panic
LoopOver == LoopBroken \/ LoopIdx >= Len(inp)

\* let mut idx = 0
LoopEnter(blk) ==
  /\ ~panicked
  /\ call # "loop"
  /\ fx.processed_frames + Len(blk) <= MaxProcessed
  /\ call' = "loop"
  /\ inp' = blk
  /\ mixed' = <<>>
  /\ wet' = <<>>
  /\ ops' = <<>>
  /\ segs' = <<>>
  /\ UNCHANGED <<fx, fades, panicked, round>>

\* the loop state after the iteration st
LoopStepped(st) ==
  /\ fx' = st.c
  /\ ops' = ops \o st.wrote
  /\ segs' = Append(segs, st.seg)
  /\ UNCHANGED <<call, inp, mixed, wet, fades, panicked, round>>

\* one iteration of while idx < n_total
LoopIterate ==
  /\ call = "loop"
  /\ ~LoopOver
  /\ LoopStepped(SegStep(fx, inp, LoopIdx))

\* what follows the loop: the counter, the ring_read and the mix
LoopLeave ==
  /\ call = "loop"
  /\ LoopOver
  /\ Processed(inp, AfterLoop([c |-> fx,
                               ok |-> segs = <<>> \/ segs[Len(segs)].ok,
                               ops |-> ops, segs |-> segs], inp))

NextLoop ==
  \/ \E blk \in Blocks : LoopEnter(blk)
  \/ LoopIterate
  \/ LoopLeave

SpecLoop == InitLoop /\ [][NextLoop]_vars

\* ------------------------------------------------------------ properties
IsRead(o) == o.op = "read"
IsWrite(o) == o.op = "write"
Reads == {j \in 1..Len(ops) : IsRead(ops[j])}
Writes == {j \in 1..Len(ops) : IsWrite(ops[j])}

\* the samples a read of n from read pointer rp over a loop of L frames is due
Periodic(b, rp, L, n) == [i \in 1..n |-> b[((rp + i - 1) % L) + 1]]

\* C1: a ring_read of n samples over L > 0 recorded frames returns
\* buf[(read_ptr + i) mod L] for i = 0..n-1, takes no sample from a position
\* >= L and leaves read_ptr = (read_ptr + n) mod L, for every n, also n > L
\* and n > 2*L (so loop-mode playback is the periodic repetition of buf[0..L]).
C1_ReadIsPeriodic ==
  \A j \in Reads :
    LET o == ops[j]
    IN o.len > 0 =>
         /\ o.ok
         /\ o.data = Periodic(fx.buf, o.from, o.len, o.n)
         /\ \A i \in 1..Len(o.pos) : o.pos[i] < o.len
         /\ fx.read_ptr = (o.from + o.n) % o.len

\* C2: with max_frames >= 1 and fade_len >= 1 every process_inplace call
\* completes, whatever the block length: no slice range is out of bounds.
C2_ProcessNeverPanics ==
  (call = "process_inplace" /\ fx.max_frames >= 1 /\ fx.fade_len >= 1) => ~panicked

\* C3: with max_frames = 0 every buffer operation is defined: writes record
\* nothing and do not fail, recorded_frames stays 0, reads return zeros.
C3_ZeroCapacityIsInert ==
  fx.max_frames = 0 =>
    /\ ~panicked
    /\ fx.recorded_frames = 0
    /\ \A j \in Reads : ops[j].data = Zeros(ops[j].n)

\* C4: outside loop mode and past warmup, a segment that starts in Idle and
\* whose peak exceeds th_lin moves the controller to FadeIn in that call and
\* writes the fade-shaped head of the segment, whatever envelope the earlier
\* blocks and segments left.
C4_LoudSegmentOpensGate ==
  \A j \in 1..Len(segs) :
    LET g == segs[j]
    IN (g.state = "Idle" /\ g.peak > fx.th_lin) =>
         /\ g.phase = "FadeIn"
         /\ g.data = [i \in 1..Min(g.remain, fx.fade_len) |->
                        Mul(inp[g.idx + i], fx.fade_curve[i])]

\* C5: with fade_len = 1 the fade table is the single multiplier 1.0, so the
\* one sample of a FadeIn or FadeOut phase is stored at full amplitude.
C5_UnitFadeIsOne ==
  fx.fade_len = 1 =>
    /\ fx.fade_curve = <<FadeOne>>
    /\ \A j \in Writes :
         ops[j].state \in {"FadeIn", "FadeOut"} =>
           ops[j].data = Slice(inp, ops[j].idx, ops[j].idx + ops[j].n)

\* C6: for fade_len >= 2 the fade table holds fade_len multipliers in [0,1],
\* non-decreasing in the index, 0 at index 0 and 1 at index fade_len - 1.
C6_FadeTableRises ==
  fx.fade_len >= 2 =>
    /\ Len(fx.fade_curve) = fx.fade_len
    /\ \A t \in 1..fx.fade_len :
         fx.fade_curve[t] >= 0 /\ fx.fade_curve[t] <= FadeOne
    /\ \A t \in 1..(fx.fade_len - 1) : fx.fade_curve[t] <= fx.fade_curve[t + 1]
    /\ fx.fade_curve[1] = 0
    /\ fx.fade_curve[fx.fade_len] = FadeOne

\* the fields the gate logic owns
StoreAndGate(c) ==
  <<c.buf, c.write_ptr, c.recorded_frames, c.state, c.fade_pos, c.env>>

\* C7: outside loop mode a call that starts below warmup_frames writes
\* nothing, leaves phase, fade_pos and envelope alone and adds the block
\* length to processed_frames; a call that starts at or past warmup_frames
\* runs the gate, so a block whose peak exceeds th_lin leaves
\* recorded_frames > 0.
C7_WarmupThenRecord ==
  [][(call' = "process_inplace" /\ ~fx.loop_mode /\ fx.max_frames >= 1)
     => IF fx.processed_frames < fx.warmup_frames
        THEN /\ StoreAndGate(fx') = StoreAndGate(fx)
             /\ Writes' = {}
             /\ fx'.processed_frames = fx.processed_frames + Len(inp')
        ELSE PeakFrom(inp', 0) > fx.th_lin => fx'.recorded_frames > 0]_vars

\* C8: in loop mode a process_inplace call changes none of buf, write_ptr,
\* recorded_frames, phase, fade_pos, envelope: it makes one ring_read of the
\* block length and mixes; and ring_write is a no-op.
C8_LoopModeOnlyReads ==
  [][(call' = "process_inplace" /\ fx.loop_mode)
     => (/\ StoreAndGate(fx') = StoreAndGate(fx)
         /\ fx'.processed_frames = fx.processed_frames
         /\ Len(ops') = 1
         /\ IsRead(ops'[1])
         /\ ops'[1].n = Len(inp')
         /\ ops'[1].ok => mixed' = Mix(fx, inp', ops'[1].data)
         /\ \A data \in Blocks : RingWrite(fx, data) = [c |-> fx, ok |-> TRUE])]_vars

\* C8 witness: loop mode engaged over a recorded excerpt, and a block played
C8_Witness ==
  /\ call = "process_inplace"
  /\ fx.loop_mode
  /\ fx.recorded_frames >= 2
  /\ Len(inp) >= 2
  /\ fx.read_ptr > 0
  /\ ~panicked

C10_WriteReadRoundTrip ==
  (/\ call = "ring_write_read"
   /\ round = 1
   /\ ~fx.loop_mode
   /\ Len(inp) >= 1
   /\ Len(inp) <= fx.max_frames)
  => (/\ ops[1].ok
      /\ Len(ops) = 2
      /\ ops[2].n = Len(inp) => (ops[2].ok /\ wet = inp))

\* C10 witness: three samples written to a larger fresh store and read back
C10_Witness ==
  /\ call = "ring_write_read"
  /\ round = 1
  /\ ~fx.loop_mode
  /\ Len(inp) = 3
  /\ fx.max_frames > 3
  /\ ops[2].n = 3
  /\ wet = <<1, 2, 3>>

\* the buffer a ring_write of data at write pointer wp into b is due to leave:
\* data[i] at (wp + i) mod max_frames, every other position as it was
Stored(b, wp, data) ==
  [p \in 1..Len(b) |->
     IF \E i \in 1..Len(data) : (wp + i - 1) % Len(b) = p - 1
     THEN data[CHOOSE i \in 1..Len(data) : (wp + i - 1) % Len(b) = p - 1]
     ELSE b[p]]

\* C11: outside loop mode a ring_write of n <= max_frames samples stores
\* data[i] at buf[(write_ptr + i) mod max_frames], leaves the other positions
\* unchanged, sets write_ptr = (write_ptr + n) mod max_frames and
\* recorded_frames = min(max(recorded_frames, write_ptr + n), max_frames);
\* and once recorded_frames = max_frames the reads that follow return the
\* samples in ring order, buf[(read_ptr + i) mod max_frames].
C11_RingWriteEffects ==
  [][(/\ call' = "ring_write_read"
      /\ ~fx.loop_mode
      /\ fx.max_frames >= 1
      /\ Len(inp') <= fx.max_frames)
     => (/\ ops'[1].ok
         /\ fx'.buf = Stored(fx.buf, fx.write_ptr, inp')
         /\ fx'.write_ptr = (fx.write_ptr + Len(inp')) % fx.max_frames
         /\ fx'.recorded_frames =
              Min(Max(fx.recorded_frames, fx.write_ptr + Len(inp')), fx.max_frames)
         /\ fx'.recorded_frames = fx.max_frames =>
              (/\ Len(ops') = 2
               /\ ops'[2].ok
               /\ ops'[2].data =
                    Periodic(fx'.buf, ops'[2].from, fx.max_frames, ops'[2].n)))]_vars

\* C12: in every state reached from Condenser::new with max_frames >= 1 by
\* process_inplace calls, 0 <= write_ptr < max_frames,
\* 0 <= recorded_frames <= max_frames and 0 <= fade_pos <= fade_len.
C12_PointersInRange ==
  fx.max_frames >= 1 =>
    /\ 0 <= fx.write_ptr /\ fx.write_ptr < fx.max_frames
    /\ 0 <= fx.recorded_frames /\ fx.recorded_frames <= fx.max_frames
    /\ 0 <= fx.fade_pos /\ fx.fade_pos <= fx.fade_len

\* C12 witness: a 3-frame store written past its end, the write pointer
\* wrapped to 1, after a fade-in of 2 samples ran to fade_len
C12_Witness ==
  /\ call = "process_inplace"
  /\ ~panicked
  /\ fx.max_frames = 3
  /\ fx.recorded_frames = 3
  /\ fx.write_ptr = 1
  /\ fx.fade_len = 2
  /\ fx.fade_pos = 2
  /\ \E j \in Writes : ops[j].from + ops[j].n > fx.max_frames

RECURSIVE SpanTotal(_, _)
\* the samples the first j spans of a fade wrote
SpanTotal(at, j) == IF j = 0 THEN 0 ELSE SpanTotal(at, j - 1) + at[j].n

\* C13: every FadeIn and every FadeOut phase writes exactly fade_len samples
\* in all before it is left, however block boundaries split them: FadeIn is
\* left for Record and FadeOut for Idle exactly when fade_pos reaches
\* fade_len, and a block that ends inside a fade leaves it to be resumed at
\* the saved fade_pos by the next block.
C13_FadesRunToFadeLen ==
  /\ fx.state \in {"FadeIn", "FadeOut"} => OpenFade(fades) # <<>>
  /\ \A j \in 1..Len(fades) :
       LET e == fades[j]
       IN /\ Len(e.out) = SpanTotal(e.at, Len(e.at))
          /\ \A i \in 1..Len(e.at) :
               e.at[i].n >= 1 /\ e.at[i].pos = SpanTotal(e.at, i - 1)
          /\ e.left # "" =>
               /\ Len(e.out) = fx.fade_len
               /\ e.left = IF e.phase = "FadeIn" THEN "Record" ELSE "Idle"
          /\ e.left = "" =>
               /\ Len(e.out) < fx.fade_len
               /\ j = Len(fades)
               /\ fx.state = e.phase
               /\ fx.fade_pos = Len(e.out)

\* C13 witness: a fade-in of 2 samples begun by one block and finished by
\* the next, which also runs the whole fade-out
C13_Witness ==
  /\ fx.fade_len = 2
  /\ Len(fades) = 2
  /\ fades[1].phase = "FadeIn"
  /\ Len(fades[1].at) = 2
  /\ fades[1].left = "Record"
  /\ fades[2].phase = "FadeOut"
  /\ fades[2].left = "Idle"
  /\ ~panicked

\* C14: the k-th sample a FadeIn phase consumes (k = 0..fade_len-1, counted
\* across block boundaries) is written as the input sample times
\* fade_curve[k]; and with fade_len = 3 a first block of three samples of 1.0
\* leaves the three fade-table values in the store and the phase Record.
C14_FadeInShapesSamples ==
  /\ \A j \in 1..Len(fades) :
       fades[j].phase = "FadeIn" =>
         \A k \in 1..Len(fades[j].src) :
           /\ k <= Len(fades[j].out)
           /\ fades[j].out[k] = Mul(fades[j].src[k], fx.fade_curve[k])
  /\ (/\ call = "process_inplace"
      /\ inp = AllOnes
      /\ segs # <<>>
      /\ fx.processed_frames = (IF panicked THEN 0 ELSE 3)
      /\ fx.fade_len = 3
      /\ fx.max_frames >= 3)
     => (/\ ~panicked
         /\ GetRecorded(fx) = [k \in 1..3 |-> Mul(One, fx.fade_curve[k])]
         /\ fx.state = "Record")

\* C14 witness: a fade-in of 3 loud samples, the first in one block and the
\* other two in the next
C14_Witness ==
  /\ fx.fade_len = 3
  /\ fades # <<>>
  /\ fades[1].phase = "FadeIn"
  /\ Len(fades[1].at) = 2
  /\ fades[1].at[1].n = 1
  /\ fades[1].src = <<0 - One, 0 - One, 0 - One>>
  /\ fades[1].out = <<0, 0 - One, 0>>
  /\ fx.state = "Record"

\* C15: the k-th sample a FadeOut phase consumes (k = 0..fade_len-1, counted
\* across block boundaries) is written as the input sample times
\* fade_curve[fade_len - 1 - k], however block boundaries split the fade-out
\* into spans.
C15_FadeOutShapesSamples ==
  \A j \in 1..Len(fades) :
    fades[j].phase = "FadeOut" =>
      \A k \in 1..Len(fades[j].src) :
        /\ k <= Len(fades[j].out)
        /\ fades[j].out[k] =
             Mul(fades[j].src[k], fx.fade_curve[fx.fade_len - (k - 1)])

\* C15 witness: a fade-out of 3 samples whose first sample ends one block
\* and whose second, a loud one, is the next block
C15_Witness ==
  /\ fx.fade_len = 3
  /\ \E j \in 1..Len(fades) :
       /\ fades[j].phase = "FadeOut"
       /\ Len(fades[j].at) = 2
       /\ fades[j].at[1].n = 1
       /\ fades[j].src[2] = 0 - One
       /\ fades[j].out[2] = 0 - One

\* the phase changes of the controller
Cycle ==
  {<<"Idle", "FadeIn">>, <<"FadeIn", "Record">>,
   <<"Record", "FadeOut">>, <<"FadeOut", "Idle">>}

\* the phases a call goes through: the phase it starts in, per iteration
\* the phase at its start, the phase after the Idle check and the phase it
\* leaves, and the phase the call ends in
PhasePath(s0, sg, s1) ==
  <<s0>> \o [i \in 1..(3 * Len(sg)) |->
               CASE (i - 1) % 3 = 0 -> sg[((i - 1) \div 3) + 1].state
                 [] (i - 1) % 3 = 1 -> sg[((i - 1) \div 3) + 1].phase
                 [] (i - 1) % 3 = 2 -> sg[((i - 1) \div 3) + 1].next]
         \o <<s1>>

\* p changes phase along the cycle only
AlongCycle(p) ==
  \A i \in 1..(Len(p) - 1) : p[i] = p[i + 1] \/ <<p[i], p[i + 1]>> \in Cycle

\* C16: the phase starts as Idle and every phase change, over any sequence of
\* process_inplace calls, is one of Idle->FadeIn, FadeIn->Record,
\* Record->FadeOut, FadeOut->Idle: a signal loud again during FadeOut does not
\* bring back Record or FadeIn before Idle, and a signal quiet during FadeIn
\* does not skip Record.
C16_PhasesFollowCycle ==
  /\ fx.state = "Idle"
  /\ [][AlongCycle(PhasePath(fx.state, segs', fx'.state))]_vars

\* C16 witness: a loud sample consumed by a fade-out, which ends in Idle
C16_Witness ==
  /\ call = "process_inplace"
  /\ ~panicked
  /\ \E j \in 1..Len(segs) :
       /\ segs[j].state = "FadeOut"
       /\ segs[j].peak > fx.th_lin
       /\ segs[j].env > fx.th_lin
       /\ segs[j].next = "Idle"

RECURSIVE WrittenBy(_, _)
\* the samples the first j store operations of tr wrote, in order
WrittenBy(tr, j) ==
  IF j = 0 THEN <<>>
  ELSE WrittenBy(tr, j - 1)
         \o (IF IsWrite(tr[j]) /\ tr[j].ok THEN tr[j].data ELSE <<>>)

\* the writes of tr take the block from its first sample on, without a gap
PrefixWrites(tr) ==
  \A j \in 1..Len(tr) :
    IsWrite(tr[j]) => tr[j].idx = Len(WrittenBy(tr, j - 1))

\* C18: in every reachable state with recorded_frames < max_frames,
\* write_ptr = recorded_frames; so until the store saturates each call
\* appends what it writes to get_recorded, which is the concatenation, in
\* order, of all samples written so far, and the samples written in one block
\* are a contiguous prefix of that block.
C18_StoreGrowsInOrder ==
  /\ fx.recorded_frames < fx.max_frames => fx.write_ptr = fx.recorded_frames
  /\ GetRecorded(fx) = <<>>
  /\ [][/\ fx'.recorded_frames < fx'.max_frames =>
             /\ fx'.write_ptr = fx'.recorded_frames
             /\ call' = "process_inplace" =>
                  GetRecorded(fx') = GetRecorded(fx) \o WrittenBy(ops', Len(ops'))
        /\ call' = "process_inplace" => PrefixWrites(ops')]_vars

\* C18 witness: a call that wrote twice, a fade-in sample and a Record
\* sample, into a store of 3 frames, which holds them in that order
C18_Witness ==
  /\ call = "process_inplace"
  /\ ~fx.loop_mode
  /\ ~panicked
  /\ fx.max_frames = 3
  /\ fx.recorded_frames = 2
  /\ Cardinality(Writes) = 2
  /\ ops[1].idx = 0 /\ ops[2].idx = 1
  /\ GetRecorded(fx)[2] = 0 - One

\* C19: within one process_inplace call past warmup in which no segment peak
\* exceeds the envelope, the envelope is multiplied by rel_coef once per
\* sample of the block (total decay exponent = block length), however the
\* phase changes split the block into segments.
C19_DecayOncePerSample ==
  [][(/\ call' = "process_inplace"
      /\ ~fx.loop_mode
      /\ fx.processed_frames >= fx.warmup_frames
      /\ ~panicked'
      /\ \A j \in 1..Len(segs') : segs'[j].peak <= segs'[j].env0)
     => fx'.env = fx.env \div Pow(RelDen, Len(inp'))]_vars

\* a bound on the iterations still to come: the samples left, counted
\* twice, and one more in Record, whose iteration may consume nothing
Measure == 2 * (Len(inp) - LoopIdx) + (IF fx.state = "Record" THEN 1 ELSE 0)

\* the iteration g of the loop did what keeps the loop finite
Progresses(g, c) ==
  CASE g.phase \in {"FadeIn", "FadeOut"} ->
         g.pos < c.fade_len /\ (g.ok => g.used >= 1)
    [] g.phase = "Record" ->
         IF g.env > c.th_lin THEN g.used = g.remain
         ELSE g.used = 0 /\ g.next = "FadeOut"
    [] OTHER -> g.phase = "Idle" /\ g.used = 0

\* C20: the segment loop of process_inplace terminates for every block and
\* every reachable state: each iteration consumes at least one sample (the
\* fade spans are >= 1 since fade_pos < fade_len in FadeIn and FadeOut),
\* consumes the rest of the block (Record), breaks (Idle, gate closed), or
\* changes phase without consuming, and no two iterations in a row consume
\* nothing.  The loop is finite because every iteration that does not end
\* it lowers Measure, a natural number.
C20_LoopTerminates ==
  [][(call = "loop" /\ call' = "loop")
     => (/\ Progresses(segs'[Len(segs')], fx)
         /\ LoopOver' \/ (0 <= Measure' /\ Measure' < Measure)
         /\ (segs # <<>> /\ segs[Len(segs)].used = 0)
              => segs'[Len(segs')].used >= 1)]_vars

\* C20 witness: a call in its fourth iteration, after a Record iteration
\* that consumed nothing and a fade-out that ran to Idle
C20_Witness ==
  /\ call = "loop"
  /\ Len(segs) = 4
  /\ segs[2].phase = "Record" /\ segs[2].used = 0
  /\ segs[3].phase = "FadeOut" /\ segs[3].next = "Idle"
  /\ segs[4].phase = "FadeIn" /\ segs[4].used >= 1

====
